---- MODULE Spec2Model ----
(***************************************************************************)
(* Model of src/app.py: the Streamlit script that loads three headline     *)
(* figures from the first two pages of 2025_AnnualReport1.pdf              *)
(* (load_data, lines 41-72) and renders either the dashboard or an error   *)
(* (lines 77-162).                                                         *)
(*                                                                         *)
(* Text is a sequence of one-character strings over a small alphabet:      *)
(*   "R"  a substring matched by  Revenue\s*was                            *)
(*   "O"  a substring matched by  Operating\s*income\s*grew                *)
(*   "A"  a substring matched by  Azure\s*surpassed                        *)
(*   "$"  the dollar sign          "0".."9", "."  the characters of [\d.]  *)
(*   "s"  a blank (whitespace, not a newline)                              *)
(*   "n"  a newline (whitespace)   "w"  any other non-newline character    *)
(* Numbers are exact rationals <<num, den>> in lowest terms, den > 0.      *)
(* None is the empty tuple <<>>, a present value v is <<v>>.               *)
(***************************************************************************)
EXTENDS Integers, Sequences, FiniteSets, TLC

VARIABLES
    fileExists,   \* os.path.exists(file_path) would answer TRUE
    file,         \* the document stored at file_path
    cache,        \* the st.cache_data entry of load_data: <<>> or <<outcome>>
    pc,           \* position of the script run: idle, open, body, exit, returned
    handle,       \* the pdfplumber handle of the current/last load: none, open, closed
    pdf,          \* the document the handle was opened on
    pending,      \* what the with-body produced: a return value or a raised exception
    exc,          \* the exception raised during the current/last invocation, or <<>>
    ret,          \* (data, error_msg) as bound at line 77
    view,         \* what the script rendered last: none, dashboard, error
    runs,         \* script runs (invocations of load_data) still to come
    loads         \* executions of the body of load_data since the process started

vars == <<fileExists, file, cache, pc, handle, pdf, pending, exc, ret, view, runs, loads>>

\* ------------------------------------------------------------------ bounds

MaxFragments == 3
MaxCalls == 3

\* ------------------------------------------------------------- arithmetic

None == <<>>
Some(v) == <<v>>

Abs(n) == IF n < 0 THEN -n ELSE n

RECURSIVE GCD(_, _)
GCD(a, b) == IF b = 0 THEN a ELSE GCD(b, a % b)

\* the rational n/d (d > 0) in lowest terms
Rat(n, d) == LET g == GCD(Abs(n), d) IN <<n \div g, d \div g>>

RECURSIVE Pow10(_)
Pow10(k) == IF k = 0 THEN 1 ELSE 10 * Pow10(k - 1)

RatSub(x, y) == Rat(x[1] * y[2] - y[1] * x[2], x[2] * y[2])

\* (x / y) * 100, for y # 0 and x, y >= 0
RatPercent(x, y) == Rat(100 * x[1] * y[2], x[2] * y[1])

\* Round2 cutting the digits after the second decimal instead of rounding
Round2Floor(q) == Rat((100 * q[1]) \div q[2], 100)

\* round(q, 2) for q >= 0: the nearest multiple of 1/100, ties to even
Round2(q) ==
    LET n == 100 * q[1]
        a == n \div q[2]
        r == n % q[2]
        up == (2 * r > q[2]) \/ (2 * r = q[2] /\ a % 2 = 1)
    IN Rat(IF up THEN a + 1 ELSE a, 100)

\* ------------------------------------------------------------ float(token)

Digits == {"0", "1", "2", "3", "4", "5", "6", "7", "8", "9"}
NumChars == Digits \cup {"."}

DigitVal(c) ==
    CASE c = "0" -> 0 [] c = "1" -> 1 [] c = "2" -> 2 [] c = "3" -> 3 [] c = "4" -> 4
      [] c = "5" -> 5 [] c = "6" -> 6 [] c = "7" -> 7 [] c = "8" -> 8 [] c = "9" -> 9

Dots(tok) == Cardinality({i \in 1..Len(tok) : tok[i] = "."})

\* float(tok) does not raise ValueError: at most one point and at least one digit
IsFloat(tok) == Dots(tok) <= 1 /\ Len(tok) - Dots(tok) >= 1

RECURSIVE DigitsToNat(_)
DigitsToNat(ds) ==
    IF ds = <<>> THEN 0
    ELSE 10 * DigitsToNat(SubSeq(ds, 1, Len(ds) - 1)) + DigitVal(ds[Len(ds)])

\* float(tok) for a token that IsFloat
Float(tok) ==
    LET dot == IF Dots(tok) = 0 THEN Len(tok) + 1
               ELSE CHOOSE i \in 1..Len(tok) : tok[i] = "."
        int == SubSeq(tok, 1, dot - 1)
        frac == SubSeq(tok, dot + 1, Len(tok))
    IN Rat(DigitsToNat(int \o frac), Pow10(Len(frac)))

\* --------------------------------------------------------------- re.search

Alphabet == {"R", "O", "A", "$", "s", "n", "w"} \cup NumChars

\* the characters \s matches, and the characters . matches
Whitespace == {"s", "n"}
NotNewline == Alphabet \ {"n"}

\* the longest run of [\d.] characters of text starting at position k
RECURSIVE NumRun(_, _)
NumRun(text, k) ==
    IF k <= Len(text) /\ text[k] \in NumChars
    THEN <<text[k]>> \o NumRun(text, k + 1)
    ELSE <<>>

\* positions j of a "$" that is followed by a [\d.] character and is reached from
\* the phrase at position i over characters that are all in gap
DollarAfter(text, i, gap) ==
    {j \in (i + 1)..(Len(text) - 1) :
        /\ text[j] = "$"
        /\ text[j + 1] \in NumChars
        /\ \A k \in (i + 1)..(j - 1) : text[k] \in gap}

Min(S) == CHOOSE x \in S : \A y \in S : x <= y

\* re.search(phrase gap \$([\d.]+), text): group(1) of the leftmost match, or None
ReSearch(phrase, gap, text) ==
    LET starts == {i \in 1..Len(text) :
                      text[i] = phrase /\ DollarAfter(text, i, gap) # {}}
    IN IF starts = {} THEN None
       ELSE LET i == Min(starts)
                j == Min(DollarAfter(text, i, gap))
            IN Some(NumRun(text, j + 1))

rev_match(text) == ReSearch("R", Whitespace, text)
op_match(text) == ReSearch("O", NotNewline, text)
az_match(text) == ReSearch("A", Whitespace, text)

\* ------------------------------------------------------- the document

\* pdf.pages[:2]
FirstTwo(pages) == SubSeq(pages, 1, IF Len(pages) < 2 THEN Len(pages) ELSE 2)

\* " ".join(texts)
RECURSIVE Join(_)
Join(texts) ==
    IF texts = <<>> THEN <<>>
    ELSE IF Len(texts) = 1 THEN texts[1]
    ELSE texts[1] \o <<"s">> \o Join(Tail(texts))

\* " ".join([p.extract_text() for p in pdf.pages[:2]])
ExtractText(doc) == Join(FirstTwo(doc.pages))

\* extract_text fails on a page that is read (a damaged page stream)
ExtractRaises(doc) == ~doc.readable /\ FirstTwo(doc.pages) # <<>>

\* --------------------------------------------------------------- outcomes

Fields == {"Revenue", "Income", "Azure", "Margin", "AzureMix", "Other"}

DefaultRevenue == Rat(2817, 10)
DefaultIncome == Rat(1285, 10)
DefaultAzure == Rat(750, 10)

Pending == <<"Data Source Pending">>
ValueError(tok) == <<"could not convert string to float: '">> \o tok \o <<"'">>
ZeroDivisionError == <<"float division by zero">>
OpenError == <<"No /Root object! - Is this really a PDF?">>
ExtractError == <<"sequence item 0: expected str instance, NoneType found">>
FileNotFoundError == <<"[Errno 2] No such file or directory">>

\* what a block of code produced: a value it returns or an exception it raises
Return(d) == [data |-> Some(d), exc |-> None]
Raise(e) == [data |-> None, exc |-> Some(e)]

\* the pair a return statement of load_data builds
Result(d, e) == [data |-> d, err |-> e]

\* Convert keeping only the whole part of the capture: int(float(...))
ConvertTruncating(m, default) ==
    IF m = None THEN Return(default)
    ELSE IF IsFloat(m[1]) THEN Return(Rat(Float(m[1])[1] \div Float(m[1])[2], 1))
    ELSE Raise(ValueError(m[1]))

\* Convert with the revenue literal pasted into every fallback
ConvertOneDefault(m, default) ==
    IF m = None THEN Return(Rat(2817, 10))
    ELSE IF IsFloat(m[1]) THEN Return(Float(m[1]))
    ELSE Raise(ValueError(m[1]))

\* Convert falling back to the default when float() rejects the capture
ConvertLenient(m, default) ==
    IF m = None THEN Return(default)
    ELSE IF IsFloat(m[1]) THEN Return(Float(m[1]))
    ELSE Return(default)

\* lines 59-61: float(m.group(1)) if m else default
Convert(m, default) ==
    IF m = None THEN Return(default)
    ELSE IF IsFloat(m[1]) THEN Return(Float(m[1]))
    ELSE Raise(ValueError(m[1]))

\* lines 66-70: the record, for rev # 0
Record(rev, op, az) ==
    [Revenue |-> rev, Income |-> op, Azure |-> az,
     Margin |-> Round2(RatPercent(op, rev)),
     AzureMix |-> Round2(RatPercent(az, rev)),
     Other |-> RatSub(rev, az)]

\* Ratios after  rev = float(...) or 281.7 : a zero revenue takes the literal
RatiosGuarded(rev, op, az) ==
    IF rev[1] = 0 THEN Return(Record(Rat(2817, 10), op, az))
    ELSE Return(Record(rev, op, az))

\* lines 63-70: op / rev raises ZeroDivisionError when rev is 0.0
Ratios(rev, op, az) ==
    IF rev[1] = 0 THEN Raise(ZeroDivisionError) ELSE Return(Record(rev, op, az))

\* lines 55-70: the searches, the conversions in source order, the ratios
Derive(text) ==
    LET rev == Convert(rev_match(text), DefaultRevenue)
        op == Convert(op_match(text), DefaultIncome)
        az == Convert(az_match(text), DefaultAzure)
    IN IF rev.exc # None THEN rev
       ELSE IF op.exc # None THEN op
       ELSE IF az.exc # None THEN az
       ELSE Ratios(rev.data[1], op.data[1], az.data[1])

\* lines 53-70: the body of the with statement
WithBody(doc) ==
    IF ExtractRaises(doc) THEN Raise(ExtractError) ELSE Derive(ExtractText(doc))

\* WithExit of a body that closes the handle itself as its last statement
WithExitLeak(h, out) == IF out.exc # None THEN h ELSE "closed"

\* line 52, leaving the with statement: PDF.__exit__ closes the handle
WithExit(h, out) == "closed"

\* Except dropping the message: return None, None
ExceptSwallow(e) == Result(None, None)

\* lines 71-72: except Exception as e: return None, str(e)
Except(e) == Result(None, Some(e))

\* CacheLookup of an undecorated load_data: nothing is ever found
CacheLookupNone(c) == None

\* line 41: the entry st.cache_data holds for load_data()
CacheLookup(c) == c

\* line 41: st.cache_data stores whatever load_data returned
CacheStore(c, r) == Some(r)

\* Missing without the existence check
MissingNever(exists) == FALSE

\* line 48: not os.path.exists(file_path)
Missing(exists) == ~exists

\* line 79: if data
Truthy(d) == d # None

\* ------------------------------------------------------------- documents

Doc(pages) == [openable |-> TRUE, readable |-> TRUE, pages |-> pages]

\* pieces of report text; "f" ends a page
Fragments ==
    { <<"R", "$", "2">>, <<"R", "$", "0">>, <<"R", "n", "$", "1", ".", "5">>,
      <<"R", "w", "$", "2">>,
      <<"O", "$", "1", ".", "5">>, <<"O", "w", "$", "2">>, <<"O", "n", "$", "2">>,
      <<"O", "$", ".">>,
      <<"A", "$", "2">>, <<"A", "$", "1", ".", "5", ".">>, <<"A", "s", "$", "5">>,
      <<"f">> }

RECURSIVE Flatten(_)
Flatten(fs) == IF fs = <<>> THEN <<>> ELSE fs[1] \o Flatten(Tail(fs))

\* the pages of a character stream in which "f" ends a page
RECURSIVE SplitPages(_, _)
SplitPages(raw, page) ==
    IF raw = <<>> THEN <<page>>
    ELSE IF raw[1] = "f" THEN <<page>> \o SplitPages(Tail(raw), <<>>)
    ELSE SplitPages(Tail(raw), Append(page, raw[1]))

Written(fs) == Doc(SplitPages(Flatten(fs), <<>>))

\* every document of at most MaxFragments fragments
Reports == {Written(fs) : fs \in UNION {[1..n -> Fragments] : n \in 0..MaxFragments}}

GoodReport == Written(<< <<"R", "$", "2">>, <<"O", "$", "1", ".", "5">>, <<"A", "$", "2">> >>)
BlankReport == Written(<<>>)
ZeroReport == Written(<< <<"R", "$", "0">> >>)
TypoReport == Written(<< <<"A", "$", "1", ".", "5", ".">> >>)
CorruptFile == [openable |-> FALSE, readable |-> FALSE, pages |-> <<>>]
DamagedReport == [openable |-> TRUE, readable |-> FALSE, pages |-> << <<"R", "$", "2">> >>]

\* the files the environment may put at file_path while the process runs
Shelf == {GoodReport, BlankReport, ZeroReport, TypoReport, CorruptFile, DamagedReport}

\* ---------------------------------------------------------------- actions

NoOutcome == [data |-> None, exc |-> None]
NoResult == Result(None, None)

Start ==
    /\ cache = None
    /\ pc = "idle"
    /\ handle = "none"
    /\ pdf = None
    /\ pending = NoOutcome
    /\ exc = None
    /\ ret = NoResult
    /\ view = "none"
    /\ loads = 0

\* a fresh process about to serve MaxCalls script runs, any shelf file or none on disk
Init ==
    /\ Start
    /\ fileExists \in BOOLEAN
    /\ file \in Shelf
    /\ runs = MaxCalls

\* a fresh process about to run the script once on a report that is on disk
InitExtract ==
    /\ Start
    /\ fileExists = TRUE
    /\ file \in Reports
    /\ runs = 1

\* line 77 calling lines 41-49: the cache lookup, then the existence check
Invoke ==
    /\ pc = "idle"
    /\ runs > 0
    /\ runs' = runs - 1
    /\ exc' = None
    /\ pending' = NoOutcome
    /\ view' = view
    /\ UNCHANGED <<fileExists, file>>
    /\ LET hit == CacheLookup(cache) IN
       IF hit # None
       THEN /\ ret' = hit[1]
            /\ pc' = "returned"
            /\ UNCHANGED <<cache, handle, pdf, loads>>
       ELSE /\ loads' = loads + 1
            /\ handle' = "none"
            /\ pdf' = None
            /\ IF Missing(fileExists)
               THEN /\ ret' = Result(None, Some(Pending))
                    /\ cache' = CacheStore(cache, ret')
                    /\ pc' = "returned"
               ELSE /\ pc' = "open"
                    /\ UNCHANGED <<ret, cache>>

\* lines 51-52: pdfplumber.open(file_path); a failure goes to lines 71-72
Open ==
    /\ pc = "open"
    /\ UNCHANGED <<fileExists, file, pending, view, runs, loads>>
    /\ IF fileExists /\ file.openable
       THEN /\ handle' = "open"
            /\ pdf' = Some(file)
            /\ pc' = "body"
            /\ UNCHANGED <<exc, ret, cache>>
       ELSE /\ exc' = Some(IF fileExists THEN OpenError ELSE FileNotFoundError)
            /\ ret' = Except(exc'[1])
            /\ cache' = CacheStore(cache, ret')
            /\ pc' = "returned"
            /\ UNCHANGED <<handle, pdf>>

\* lines 53-70: the body of the with statement runs to its return or to an exception
Body ==
    /\ pc = "body"
    /\ pending' = WithBody(pdf[1])
    /\ exc' = pending'.exc
    /\ pc' = "exit"
    /\ UNCHANGED <<fileExists, file, cache, handle, pdf, ret, view, runs, loads>>

\* leaving the with statement (line 52), then line 70 or lines 71-72, then the store
Exit ==
    /\ pc = "exit"
    /\ handle' = WithExit(handle, pending)
    /\ ret' = IF pending.exc # None THEN Except(pending.exc[1])
              ELSE Result(pending.data, None)
    /\ cache' = CacheStore(cache, ret')
    /\ pending' = NoOutcome
    /\ pc' = "returned"
    /\ UNCHANGED <<fileExists, file, pdf, exc, view, runs, loads>>

\* lines 79-162: the dashboard when data is truthy, st.error otherwise
Render ==
    /\ pc = "returned"
    /\ view' = IF Truthy(ret.data) THEN "dashboard" ELSE "error"
    /\ pc' = "idle"
    /\ UNCHANGED <<fileExists, file, cache, handle, pdf, pending, exc, ret, runs, loads>>

\* the environment removes the report
RemoveFile ==
    /\ fileExists
    /\ fileExists' = FALSE
    /\ UNCHANGED <<file, cache, pc, handle, pdf, pending, exc, ret, view, runs, loads>>

\* the environment puts a file at file_path
WriteFile ==
    \E d \in Shelf :
        /\ ~fileExists \/ d # file
        /\ file' = d
        /\ fileExists' = TRUE
        /\ UNCHANGED <<cache, pc, handle, pdf, pending, exc, ret, view, runs, loads>>

\* the process is restarted between script runs: the cache starts empty
Restart ==
    /\ pc = "idle"
    /\ cache # None
    /\ cache' = None
    /\ loads' = 0
    /\ handle' = "none"
    /\ pdf' = None
    /\ ret' = NoResult
    /\ view' = "none"
    /\ UNCHANGED <<fileExists, file, pc, pending, exc, runs>>

Next == Invoke \/ Open \/ Body \/ Exit \/ Render \/ RemoveFile \/ WriteFile \/ Restart

Spec == Init /\ [][Next]_vars

NextExtract == Invoke \/ Open \/ Body \/ Exit \/ Render

SpecExtract == InitExtract /\ [][NextExtract]_vars


\* ----------------------------------------------------------------- claims

\* a load that opened the document has completed; TextRead is the text it searched
Extracted == pdf # None /\ pc \in {"returned", "idle"} /\ ~ExtractRaises(pdf[1])
TextRead == ExtractText(pdf[1])

Matched(m) == m # None
ValidCapture(m) == m # None /\ IsFloat(m[1])
AllCaptured ==
    /\ ValidCapture(rev_match(TextRead))
    /\ ValidCapture(op_match(TextRead))
    /\ ValidCapture(az_match(TextRead))
IsRecord(r) == r.data # None /\ r.err = None
IsError(r) == r.data = None /\ r.err # None
BaseFieldsAreCaptures ==
    /\ ret.data[1].Revenue = Float(rev_match(TextRead)[1])
    /\ ret.data[1].Income = Float(op_match(TextRead)[1])
    /\ ret.data[1].Azure = Float(az_match(TextRead)[1])

\* C1 as stated: whenever all three patterns match with valid decimal captures,
\* load_data returns a record and no error, and Revenue, Income and Azure are the
\* three captured values.
C1_Original ==
    (Extracted /\ AllCaptured) => (IsRecord(ret) /\ BaseFieldsAreCaptures)

\* C1 amended: whenever all three patterns match with valid decimal captures and
\* the captured Revenue is not zero, load_data returns a record and no error, and
\* Revenue, Income and Azure are the three captured values, unrounded.
C1_ExactCaptures ==
    (Extracted /\ AllCaptured /\ Float(rev_match(TextRead)[1])[1] # 0)
        => (IsRecord(ret) /\ BaseFieldsAreCaptures)

\* all three captured, one of them with a fractional part, and a record returned
C1_Witness ==
    /\ Extracted
    /\ AllCaptured
    /\ IsRecord(ret)
    /\ ret.data[1].Revenue = <<3, 2>>
    /\ ret.data[1].Income = <<2, 1>>

\* a field of a returned record is its pattern's capture, or the literal when the
\* pattern has no match
FallsBack(m, value, literal) ==
    IF Matched(m) THEN value = Float(m[1]) ELSE value = literal

\* C2: each pattern falls back on its own: in a returned record an unmatched
\* pattern's field is its literal (281.7, 128.5, 75.0) and a matched pattern's
\* field is its capture; a missing match is never what makes the load fail; text
\* matching no pattern gives exactly the three literals.
C2_IndependentDefaults ==
    Extracted =>
        LET rm == rev_match(TextRead)
            om == op_match(TextRead)
            am == az_match(TextRead)
        IN /\ IsRecord(ret) =>
                /\ FallsBack(rm, ret.data[1].Revenue, <<2817, 10>>)
                /\ FallsBack(om, ret.data[1].Income, <<257, 2>>)
                /\ FallsBack(am, ret.data[1].Azure, <<75, 1>>)
           /\ ~IsRecord(ret) =>
                \/ \E m \in {rm, om, am} : Matched(m) /\ ~IsFloat(m[1])
                \/ ValidCapture(rm) /\ Float(rm[1])[1] = 0
           /\ (~Matched(rm) /\ ~Matched(om) /\ ~Matched(am)) =>
                /\ IsRecord(ret)
                /\ ret.data[1].Revenue = <<2817, 10>>
                /\ ret.data[1].Income = <<257, 2>>
                /\ ret.data[1].Azure = <<75, 1>>

\* Revenue and Azure captured, the operating-income pattern without a match
C2_Witness ==
    /\ Extracted
    /\ Matched(rev_match(TextRead))
    /\ ~Matched(op_match(TextRead))
    /\ Matched(az_match(TextRead))
    /\ IsRecord(ret)
    /\ ret.data[1].Income = <<257, 2>>
    /\ ret.data[1].Revenue # <<2817, 10>>

\* m is a multiple of 1/100 nearest to 100 * x / y  (|m - 100x/y| <= 1/200)
NearestHundredth(m, x, y) ==
    LET q == RatPercent(x, y)
    IN /\ 100 % m[2] = 0
       /\ 200 * Abs(m[1] * q[2] - q[1] * m[2]) <= m[2] * q[2]

\* C3: in every returned record Margin is Income/Revenue*100 and AzureMix is
\* Azure/Revenue*100, each rounded to 2 decimals, and Other is Revenue - Azure,
\* unclamped; 281.7, 128.5, 75.0 give 45.62, 26.62, 206.7.
C3_DerivedFields ==
    (pc \in {"returned", "idle"} /\ ret.data # None) =>
        LET d == ret.data[1]
        IN /\ NearestHundredth(d.Margin, d.Income, d.Revenue)
           /\ NearestHundredth(d.AzureMix, d.Azure, d.Revenue)
           /\ d.Other[1] * d.Revenue[2] * d.Azure[2]
                 = (d.Revenue[1] * d.Azure[2] - d.Azure[1] * d.Revenue[2]) * d.Other[2]
           /\ (d.Revenue = <<2817, 10>> /\ d.Income = <<257, 2>> /\ d.Azure = <<75, 1>>)
                 => (d.Margin = <<2281, 50>> /\ d.AzureMix = <<1331, 50>>
                        /\ d.Other = <<2067, 10>>)

\* a record with Azure above Revenue (negative Other) and a Margin that had to be
\* rounded: 2 / 1.5 * 100 = 133.33
C3_Witness ==
    /\ pc = "returned"
    /\ ret.data # None
    /\ ret.data[1].Other[1] < 0
    /\ ret.data[1].Margin = <<13333, 100>>

\* C9: when the Revenue pattern captures a numeral equal to zero the load ends in
\* the error outcome, and every returned record has a non-zero Revenue and finite
\* Margin and AzureMix.
C9_ZeroRevenue ==
    /\ (Extracted /\ ValidCapture(rev_match(TextRead))
           /\ Float(rev_match(TextRead)[1])[1] = 0) => IsError(ret)
    /\ (pc \in {"returned", "idle"} /\ ret.data # None) =>
           /\ ret.data[1].Revenue[1] # 0
           /\ ret.data[1].Margin[2] > 0
           /\ ret.data[1].AzureMix[2] > 0

\* Revenue was $0 with the other captures valid: the division raised
C9_Witness ==
    /\ Extracted
    /\ AllCaptured
    /\ Float(rev_match(TextRead)[1])[1] = 0
    /\ ret = Result(None, Some(ZeroDivisionError))

\* C10: a pattern that matches a token float() rejects makes the whole load end in
\* the error outcome; its default is not substituted and no record is returned.
C10_InvalidCapture ==
    (Extracted /\ \E m \in {rev_match(TextRead), op_match(TextRead), az_match(TextRead)} :
                     Matched(m) /\ ~IsFloat(m[1]))
        => IsError(ret)

\* Revenue and Income captured validly, Azure captured as 1.5. : no record
C10_Witness ==
    /\ Extracted
    /\ ValidCapture(rev_match(TextRead))
    /\ ValidCapture(op_match(TextRead))
    /\ az_match(TextRead) = Some(<<"1", ".", "5", ".">>)
    /\ ret = Result(None, Some(ValueError(<<"1", ".", "5", ".">>)))

\* a step that is an invocation of load_data
Invoked == pc = "idle" /\ pc' # "idle"

PendingResult == Result(None, Some(Pending))

\* C4 as stated: an invocation made while the file does not exist returns
\* (None, "Data Source Pending") without opening the document.
C4_Original ==
    [][(Invoked /\ ~fileExists)
          => (pc' = "returned" /\ ret' = PendingResult /\ handle' # "open")]_vars

\* C4 amended: an invocation made while the file does not exist and nothing is
\* cached returns (None, "Data Source Pending") at once, without opening the
\* document; the script then renders the error branch.
C4_MissingFile ==
    [][/\ (Invoked /\ ~fileExists /\ cache = None)
            => (pc' = "returned" /\ ret' = PendingResult /\ handle' = "none"
                   /\ pdf' = None /\ exc' = None)
       /\ (pc = "returned" /\ pc' = "idle" /\ ret = PendingResult)
            => view' = "error"]_vars

\* the file was missing, the fixed message came back and the error was rendered
C4_Witness ==
    /\ ret = PendingResult
    /\ view = "error"
    /\ handle = "none"
    /\ loads = 1
    /\ pc = "idle"

\* either a record with all six fields and no error, or no record and a message
AllOrNothing(r) ==
    \/ r.data # None /\ r.err = None /\ DOMAIN r.data[1] = Fields
    \/ r.data = None /\ r.err # None

\* C5: every completion of load_data returns either a full six-field record and
\* no error, or no record and an error message; an exception raised while
\* opening, extracting, parsing or dividing ends in the error outcome carrying
\* its message.
C5_AllOrNothing ==
    /\ pc = "returned" =>
          /\ AllOrNothing(ret)
          /\ exc # None => ret = Result(None, exc)
    /\ cache # None => AllOrNothing(cache[1])

\* an exception raised inside the with statement ended in the error outcome
C5_Witness ==
    /\ pc = "returned"
    /\ handle = "closed"
    /\ exc = Some(ZeroDivisionError)
    /\ IsError(ret)

\* C6: within one process the body of load_data runs at most once; a stored
\* outcome changes only by a restart; an invocation that finds a stored outcome
\* returns it without opening the document, whatever happened to the file.
C6_LoadedOnce ==
    [][/\ loads' <= 1
       /\ (cache # None /\ cache' # cache) => Restart
       /\ (Invoked /\ cache # None)
            => (pc' = "returned" /\ ret' = cache[1] /\ cache' = cache
                   /\ loads' = loads /\ handle' = handle)]_vars

\* a later run of the same process got the stored record although the file is gone
C6_Witness ==
    /\ pc = "returned"
    /\ view = "dashboard"
    /\ loads = 1
    /\ ~fileExists
    /\ IsRecord(ret)
    /\ cache = Some(ret)

SourceUnavailable == {Pending, OpenError, FileNotFoundError, ExtractError}

\* C7: after an invocation that ended in an error because the document was
\* missing or unreadable, the next invocation attempts the load again, so that
\* with a good report now on disk it does not return the earlier error.
C7_RetryAfterError ==
    [][(Invoked /\ ret.err # None /\ ret.err[1] \in SourceUnavailable
           /\ fileExists /\ file = GoodReport)
          => (loads' = loads + 1 /\ pc' = "open")]_vars

\* C8: no completed invocation leaves the document handle open, on the normal
\* return and on every exception raised inside the with statement.
C8_HandleClosed ==
    /\ pc \in {"returned", "idle"} => handle # "open"
    /\ (pc = "returned" /\ pdf # None) => handle = "closed"

\* the body raised after the document was opened, and the handle is closed
C8_Witness ==
    /\ pc = "returned"
    /\ pdf # None
    /\ exc # None
    /\ handle = "closed"

====
